---------------------------- MODULE Spec2Model ----------------------------
(***************************************************************************)
(* A model of mpl_tune: FigSize (src/mpl_tune/size.py), the figure         *)
(* geometry calculator, and FigText (src/mpl_tune/text.py), the text       *)
(* styler.                                                                 *)
(*                                                                         *)
(* Numbers.  Python numbers are modelled as exact rationals n/d in lowest  *)
(* terms (d > 0), so that a product, a quotient or a round trip is         *)
(* computed, not assumed; floating-point rounding is not modelled.  The    *)
(* same record shape carries Python's None (d = 0, n = 0) and the two      *)
(* exceptions arithmetic can raise (d = 0, n = 1: TypeError, an operand    *)
(* is None; d = 0, n = 2: ZeroDivisionError), which propagate through the  *)
(* operators in Python's evaluation order.                                 *)
(*                                                                         *)
(* Strings.  A text is a sequence of one-character strings, indexed from   *)
(* 0 as in Python by the helpers find and slice.                           *)
(***************************************************************************)
EXTENDS Integers, Sequences, FiniteSets, TLC

VARIABLES
    fig,      \* the FigSize instance: a record of its fields
    ret,      \* what the last FigSize call returned or raised
    ncalls,   \* number of FigSize setter calls made so far
    ftext,    \* the FigText instance: size, color, fontproperties, tex
    text,     \* conv: the `text` argument
    math,     \* conv: the `math` argument
    tex,      \* conv: the `tex` argument ("None", "True" or "False")
    pc,       \* conv: position in the method
    start,    \* conv: local `start`
    out,      \* conv: local `ret`, and the returned text once pc = "done"
    ax,       \* the styled Axes: facecolor, tick colour, spine colour
    colorbar, \* the styled Colorbar: its Axes and its outline colour
    labels,   \* the styled Text elements, by name
    last,     \* the last FigText styling call and its arguments
    nstyled   \* number of FigText calls (setters and styling) made so far

geomVars == <<fig, ret, ncalls>>
convVars == <<text, math, tex, pc, start, out>>
styleVars == <<ax, colorbar, labels, last, nstyled>>
vars == <<fig, ret, ncalls, ftext, text, math, tex, pc, start, out, ax, colorbar, labels, last, nstyled>>

----------------------------------------------------------------------------
(* Bounds of the model *)

\* Largest number of rows and of columns of subplots.
MaxGrid == 2
\* Largest number of setter calls made on one FigSize after its initial state.
MaxCalls == 3
\* Largest number of calls made on one FigText.
MaxStyled == 2

----------------------------------------------------------------------------
(* Numbers *)

Abs(x) == IF x < 0 THEN -x ELSE x

RECURSIVE GCD(_, _)
GCD(a, b) == IF b = 0 THEN a ELSE GCD(b, a % b)

\* The rational n/d (d # 0) in lowest terms with a positive denominator.
Q(n, d) ==
    LET g == GCD(Abs(n), Abs(d))
        s == IF d < 0 THEN -1 ELSE 1
    IN  [n |-> (s * n) \div g, d |-> (s * d) \div g]

None == [n |-> 0, d |-> 0]
TypeError == [n |-> 1, d |-> 0]
ZeroDivisionError == [n |-> 2, d |-> 0]

IsNum(x) == x.d > 0
IsRaised(x) == x.d = 0 /\ x.n > 0

\* The outcome of a binary operation when an operand is not a number: an
\* exception raised while evaluating an operand (left first), else TypeError.
Raised(a, b) == IF IsRaised(a) THEN a ELSE IF IsRaised(b) THEN b ELSE TypeError

Add(a, b) == IF IsNum(a) /\ IsNum(b) THEN Q(a.n * b.d + b.n * a.d, a.d * b.d) ELSE Raised(a, b)
Sub(a, b) == IF IsNum(a) /\ IsNum(b) THEN Q(a.n * b.d - b.n * a.d, a.d * b.d) ELSE Raised(a, b)
Mul(a, b) == IF IsNum(a) /\ IsNum(b) THEN Q(a.n * b.n, a.d * b.d) ELSE Raised(a, b)
Div(a, b) ==
    IF IsNum(a) /\ IsNum(b)
    THEN IF b.n = 0 THEN ZeroDivisionError ELSE Q(a.n * b.d, a.d * b.n)
    ELSE Raised(a, b)

Positive(a) == IsNum(a) /\ a.n > 0
Zero == Q(0, 1)
One == Q(1, 1)

\* The first exception among the values of a sequence, None when there is none.
RECURSIVE FirstRaised(_)
FirstRaised(xs) ==
    IF xs = <<>> THEN None
    ELSE IF IsRaised(Head(xs)) THEN Head(xs) ELSE FirstRaised(Tail(xs))

ErrName(x) == IF x = TypeError THEN "TypeError" ELSE "ZeroDivisionError"

----------------------------------------------------------------------------
(* FigSize: constants and construction *)

SIZE_ALL == 1
SIZE_NO_CBAR == 2
SIZE_AXES == 3
SIZE_AX == 4
SIZE_RATIO_AX == 5

SizeTypes == {SIZE_ALL, SIZE_NO_CBAR, SIZE_AXES, SIZE_AX, SIZE_RATIO_AX}

\* Arguments the model passes to the constructor and to the setters.
CtorSizeH == Q(6, 1)
CtorSizeV == Q(5, 1)
CtorMargin == Q(1, 2)
SizeHArgs == {Q(4, 1)}
SizeVArgs == {Q(3, 1)}
MarginArgs == {Q(1, 1)}
SpacingArgs == {None, Zero, Q(1, 4)}
CbarLocArgs == {"None", "left", "right", "bottom", "top", "center"}
CbarWidthArgs == {Q(1, 4)}
CbarPadArgs == {Q(1, 8)}
GridArgs == 1..MaxGrid

\* FigSize.__init__
FigSizeInit(size_h, size_v, nrows, ncols, margin_left, margin_bottom, margin_right, margin_top) ==
    [ size_h |-> size_h, type_h |-> SIZE_ALL,
      size_v |-> size_v, type_v |-> SIZE_ALL,
      nrows |-> nrows, ncols |-> ncols,
      margin_left |-> margin_left, margin_bottom |-> margin_bottom,
      margin_right |-> margin_right, margin_top |-> margin_top,
      spacing_h |-> None, spacing_v |-> None,
      cbar_loc |-> "None", cbar_width |-> None, cbar_pad |-> None ]

----------------------------------------------------------------------------
(* FigSize: the queries, as functions of the instance *)

\* `spacing_h` as resolved at the head of get_figure_size and get_subplots_args
resolved_spacing_h(self) ==
    IF self.spacing_h = None THEN Add(self.margin_left, self.margin_right) ELSE self.spacing_h

resolved_spacing_v(self) ==
    IF self.spacing_v = None THEN Add(self.margin_bottom, self.margin_top) ELSE self.spacing_v

\* ratio_size_h with the margins left in the SIZE_NO_CBAR branch
ratio_size_h_keeps_margins(self, spacing_v) ==
    LET gaps == Mul(spacing_v, Q(self.nrows - 1, 1))
    IN  IF self.type_v = SIZE_AX THEN Mul(self.size_h, self.size_v)
        ELSE Mul(self.size_h, Div(Sub(self.size_v, gaps), Q(self.nrows, 1)))

\* The first block: size_h when type_h is SIZE_RATIO_AX (both ratio is excluded by the caller)
ratio_size_h(self, spacing_v) ==
    LET size_h == self.size_h
        size_v == self.size_v
        nrows == Q(self.nrows, 1)
        gaps == Mul(spacing_v, Q(self.nrows - 1, 1))
    IN  IF self.type_v = SIZE_AX THEN Mul(size_h, size_v)
        ELSE IF self.type_v = SIZE_AXES THEN Mul(size_h, Div(Sub(size_v, gaps), nrows))
        ELSE IF self.type_v = SIZE_NO_CBAR
            THEN Mul(size_h, Div(Sub(Sub(Sub(size_v, self.margin_bottom), self.margin_top), gaps), nrows))
        ELSE LET cbar == IF self.cbar_loc = "bottom" \/ self.cbar_loc = "top"
                         THEN Add(self.cbar_width, self.cbar_pad) ELSE Zero
             IN  Mul(size_h, Div(Sub(Sub(Sub(Sub(size_v, cbar), self.margin_bottom), self.margin_top), gaps), nrows))

\* The second block: size_v when type_v is SIZE_RATIO_AX
ratio_size_v(self, spacing_h) ==
    LET size_h == self.size_h
        size_v == self.size_v
        ncols == Q(self.ncols, 1)
        gaps == Mul(spacing_h, Q(self.ncols - 1, 1))
    IN  IF self.type_h = SIZE_AX THEN Mul(size_v, size_h)
        ELSE IF self.type_h = SIZE_AXES THEN Mul(size_v, Div(Sub(size_h, gaps), ncols))
        ELSE IF self.type_h = SIZE_NO_CBAR
            THEN Mul(size_v, Div(Sub(Sub(Sub(size_h, self.margin_left), self.margin_right), gaps), ncols))
        ELSE LET cbar == IF self.cbar_loc = "left" \/ self.cbar_loc = "right"
                         THEN Add(self.cbar_width, self.cbar_pad) ELSE Zero
             IN  Mul(size_v, Div(Sub(Sub(Sub(Sub(size_h, cbar), self.margin_left), self.margin_right), gaps), ncols))

\* From the size of one subplot to the size of the axes region
grid_size(size, type, count, spacing) ==
    IF type = SIZE_AX \/ type = SIZE_RATIO_AX
    THEN Add(Mul(size, Q(count, 1)), Mul(spacing, Q(count - 1, 1)))
    ELSE size

\* margin_size without the SIZE_AX case
margin_size_without_ax(size, type, margin_a, margin_b) ==
    IF type = SIZE_AXES \/ type = SIZE_RATIO_AX
    THEN Add(size, Add(margin_a, margin_b))
    ELSE size

\* From the axes region to the figure without its colour bar
margin_size(size, type, margin_a, margin_b) ==
    IF type = SIZE_AXES \/ type = SIZE_AX \/ type = SIZE_RATIO_AX
    THEN Add(size, Add(margin_a, margin_b))
    ELSE size

\* From the figure without its colour bar to the whole figure
cbar_size(self, size, type, side_a, side_b) ==
    IF (type = SIZE_NO_CBAR \/ type = SIZE_AXES \/ type = SIZE_AX \/ type = SIZE_RATIO_AX)
       /\ (self.cbar_loc = side_a \/ self.cbar_loc = side_b)
    THEN Add(size, Add(self.cbar_width, self.cbar_pad))
    ELSE size

\* both_ratio with the second mode mistaken
both_ratio_mistaken(self) == self.type_h = SIZE_RATIO_AX /\ self.type_v = SIZE_AX

\* Whether get_figure_size raises its own exception
both_ratio(self) == self.type_h = SIZE_RATIO_AX /\ self.type_v = SIZE_RATIO_AX

\* What get_figure_size hands back: [err, h, v], err being "none" when (h, v) is returned
size_raised(err) == [err |-> err, h |-> None, v |-> None]
size_returned(size_h, size_v) ==
    IF FirstRaised(<<size_h, size_v>>) # None
    THEN size_raised(ErrName(FirstRaised(<<size_h, size_v>>)))
    ELSE [err |-> "none", h |-> size_h, v |-> size_v]

\* The colour bar's room, then the return
size_from_figure(self, size_h, size_v) ==
    IF FirstRaised(<<size_h, size_v>>) # None
    THEN size_raised(ErrName(FirstRaised(<<size_h, size_v>>)))
    ELSE size_returned(cbar_size(self, size_h, self.type_h, "left", "right"),
                       cbar_size(self, size_v, self.type_v, "bottom", "top"))

\* The margins, then the rest
size_from_axes(self, size_h, size_v) ==
    IF FirstRaised(<<size_h, size_v>>) # None
    THEN size_raised(ErrName(FirstRaised(<<size_h, size_v>>)))
    ELSE size_from_figure(self,
             margin_size(size_h, self.type_h, self.margin_left, self.margin_right),
             margin_size(size_v, self.type_v, self.margin_bottom, self.margin_top))

\* The grid of subplots, then the rest
size_from_ax(self, spacing_h, spacing_v, size_h, size_v) ==
    IF FirstRaised(<<size_h, size_v>>) # None
    THEN size_raised(ErrName(FirstRaised(<<size_h, size_v>>)))
    ELSE size_from_axes(self,
             grid_size(size_h, self.type_h, self.ncols, spacing_h),
             grid_size(size_v, self.type_v, self.nrows, spacing_v))

\* The two ratio blocks, then the rest
size_from_spacing(self, spacing_h, spacing_v) ==
    IF FirstRaised(<<spacing_h, spacing_v>>) # None
    THEN size_raised(ErrName(FirstRaised(<<spacing_h, spacing_v>>)))
    ELSE IF both_ratio(self) THEN size_raised("Exception")
    ELSE size_from_ax(self, spacing_h, spacing_v,
             IF self.type_h = SIZE_RATIO_AX THEN ratio_size_h(self, spacing_v) ELSE self.size_h,
             IF self.type_v = SIZE_RATIO_AX THEN ratio_size_v(self, spacing_h) ELSE self.size_v)

\* FigSize.get_figure_size
get_figure_size(self) ==
    size_from_spacing(self, resolved_spacing_h(self), resolved_spacing_v(self))

\* adjusted_margin without the padding
adjusted_margin_without_pad(self, margin, side) ==
    IF self.cbar_loc = side THEN Add(margin, self.cbar_width) ELSE margin

\* The four margins of get_subplots_args, each with the colour bar's room on its side
adjusted_margin(self, margin, side) ==
    IF self.cbar_loc = side THEN Add(margin, Add(self.cbar_width, self.cbar_pad)) ELSE margin

\* grid_space with one gap too many
grid_space_one_more(count, size, near, far, spacing) ==
    IF count > 1 /\ Positive(spacing)
    THEN Div(Q(count, 1), Sub(Div(Sub(Sub(size, far), near), spacing), Q(count, 1)))
    ELSE Zero

\* wspace and hspace of get_subplots_args
grid_space(count, size, near, far, spacing) ==
    IF count > 1 /\ Positive(spacing)
    THEN Div(Q(count, 1), Sub(Div(Sub(Sub(size, far), near), spacing), Q(count - 1, 1)))
    ELSE Zero

\* What get_subplots_args and get_cbar_ax_spec hand back: [err, val]
args_raised(err) == [err |-> err, val |-> <<>>]
args_returned(vals) ==
    IF FirstRaised(vals) # None THEN args_raised(ErrName(FirstRaised(vals)))
    ELSE [err |-> "none", val |-> vals]

\* The dictionary of get_subplots_args, as <<left, bottom, right, top, wspace, hspace>>
subplots_dict(size_h, size_v, left, bottom, right, top, wspace, hspace) ==
    IF FirstRaised(<<wspace, hspace>>) # None
    THEN args_raised(ErrName(FirstRaised(<<wspace, hspace>>)))
    ELSE args_returned(<< Div(left, size_h), Div(bottom, size_v),
                          Sub(One, Div(right, size_h)), Sub(One, Div(top, size_v)),
                          wspace, hspace >>)

\* wspace and hspace from the adjusted margins, then the dictionary
subplots_spaced(self, size_h, size_v, left, bottom, right, top) ==
    IF FirstRaised(<<left, right, bottom, top>>) # None
    THEN args_raised(ErrName(FirstRaised(<<left, right, bottom, top>>)))
    ELSE subplots_dict(size_h, size_v, left, bottom, right, top,
             grid_space(self.ncols, size_h, left, right, resolved_spacing_h(self)),
             grid_space(self.nrows, size_v, bottom, top, resolved_spacing_v(self)))

\* get_subplots_args once the figure size is known
subplots_sized(self, fs) ==
    IF fs.err # "none" THEN args_raised(fs.err)
    ELSE subplots_spaced(self, fs.h, fs.v,
             adjusted_margin(self, self.margin_left, "left"),
             adjusted_margin(self, self.margin_bottom, "bottom"),
             adjusted_margin(self, self.margin_right, "right"),
             adjusted_margin(self, self.margin_top, "top"))

\* FigSize.get_subplots_args
get_subplots_args(self) == subplots_sized(self, get_figure_size(self))

\* has_cbar without the top side
has_cbar_without_top(self) ==
    self.cbar_loc = "left" \/ self.cbar_loc = "right" \/ self.cbar_loc = "bottom"

\* FigSize.has_cbar
has_cbar(self) ==
    self.cbar_loc = "left" \/ self.cbar_loc = "right" \/ self.cbar_loc = "bottom" \/ self.cbar_loc = "top"

\* The rectangle [x, y, width, height] of get_cbar_ax_spec for a colour bar on `loc`
cbar_rect(self, loc, size_h, size_v) ==
    IF loc = "left" THEN
        << Div(self.margin_left, size_h), Div(self.margin_bottom, size_v),
           Div(self.cbar_width, size_h),
           Sub(One, Div(Add(self.margin_bottom, self.margin_top), size_v)) >>
    ELSE IF loc = "right" THEN
        << Sub(One, Div(Add(self.cbar_width, self.cbar_pad), size_h)), Div(self.margin_bottom, size_v),
           Div(self.cbar_width, size_h),
           Sub(One, Div(Add(self.margin_bottom, self.margin_top), size_v)) >>
    ELSE IF loc = "bottom" THEN
        << Div(self.margin_left, size_h), Div(self.margin_bottom, size_v),
           Sub(One, Div(Add(self.margin_left, self.margin_right), size_h)),
           Div(self.cbar_width, size_v) >>
    ELSE
        << Div(self.margin_left, size_h),
           Sub(One, Div(Add(self.cbar_width, self.margin_top), size_v)),
           Sub(One, Div(Add(self.margin_left, self.margin_right), size_h)),
           Div(self.cbar_width, size_v) >>

\* get_cbar_ax_spec once the figure size is known; val is <<>> for None
cbar_ax_sized(self, fs) ==
    IF fs.err # "none" THEN args_raised(fs.err)
    ELSE IF ~ (self.cbar_loc \in {"left", "right", "bottom", "top"}) THEN [err |-> "none", val |-> <<>>]
    ELSE args_returned(cbar_rect(self, self.cbar_loc, fs.h, fs.v))

\* FigSize.get_cbar_ax_spec
get_cbar_ax_spec(self) == cbar_ax_sized(self, get_figure_size(self))

\* FigSize.get_cbar_orientation
get_cbar_orientation(self) ==
    IF self.cbar_loc = "left" \/ self.cbar_loc = "right" THEN "vertical"
    ELSE IF self.cbar_loc = "bottom" \/ self.cbar_loc = "top" THEN "horizontal"
    ELSE "None"


----------------------------------------------------------------------------
(* FigSize: the calls, as actions *)

Returned(op, val, str) == [op |-> op, err |-> "none", val |-> val, str |-> str]
RaisedBy(op, err) == [op |-> op, err |-> err, val |-> <<>>, str |-> "None"]

\* A setter stores its argument(s) and returns None.
Setter(new) ==
    /\ ncalls < MaxCalls
    /\ fig' = new
    /\ ncalls' = ncalls + 1
    /\ ret' = Returned("setter", <<>>, "None")
    /\ UNCHANGED <<ftext, convVars, styleVars>>

set_size_h ==
    \E size_h \in SizeHArgs, type_h \in SizeTypes \cup {0} :
        Setter([fig EXCEPT !.size_h = size_h,
                           !.type_h = IF type_h # 0 THEN type_h ELSE @])

set_size_v ==
    \E size_v \in SizeVArgs, type_v \in SizeTypes \cup {0} :
        Setter([fig EXCEPT !.size_v = size_v,
                           !.type_v = IF type_v # 0 THEN type_v ELSE @])

set_nrows == \E nrows \in GridArgs : Setter([fig EXCEPT !.nrows = nrows])
set_ncols == \E ncols \in GridArgs : Setter([fig EXCEPT !.ncols = ncols])
set_margin_left == \E m \in MarginArgs : Setter([fig EXCEPT !.margin_left = m])
set_margin_bottom == \E m \in MarginArgs : Setter([fig EXCEPT !.margin_bottom = m])
set_margin_right == \E m \in MarginArgs : Setter([fig EXCEPT !.margin_right = m])
set_margin_top == \E m \in MarginArgs : Setter([fig EXCEPT !.margin_top = m])
set_spacing_h == \E sp \in SpacingArgs : Setter([fig EXCEPT !.spacing_h = sp])
set_spacing_v == \E sp \in SpacingArgs : Setter([fig EXCEPT !.spacing_v = sp])
set_cbar_loc == \E loc \in CbarLocArgs : Setter([fig EXCEPT !.cbar_loc = loc])
set_cbar_width == \E w \in CbarWidthArgs : Setter([fig EXCEPT !.cbar_width = w])
set_cbar_pad == \E p \in CbarPadArgs : Setter([fig EXCEPT !.cbar_pad = p])

\* Query keeping the resolved spacing_h on the instance
Query_storing(result) ==
    /\ ret' = result
    /\ fig' = [fig EXCEPT !.spacing_h = resolved_spacing_h(fig)]
    /\ UNCHANGED <<ncalls, ftext, convVars, styleVars>>

\* A query returns or raises and assigns no field.
Query(result) ==
    /\ ret' = result
    /\ UNCHANGED <<fig, ncalls, ftext, convVars, styleVars>>

\* The reply of a query that may raise
Reply(op, r, val, str) == IF r.err # "none" THEN RaisedBy(op, r.err) ELSE Returned(op, val, str)
SizeReply(op, r, str) == Reply(op, r, <<r.h, r.v>>, str)
ArgsReply(op, r, str) == Reply(op, r, r.val, IF r.val = <<>> THEN "None" ELSE str)

GetFigureSize == Query(SizeReply("get_figure_size", get_figure_size(fig), "None"))

GetFigureArgs == Query(SizeReply("get_figure_args", get_figure_size(fig), "figsize"))

GetSubplotsArgs == Query(ArgsReply("get_subplots_args", get_subplots_args(fig), "dict"))

HasCbar == Query(Returned("has_cbar", <<>>, IF has_cbar(fig) THEN "True" ELSE "False"))

GetCbarAxSpec == Query(ArgsReply("get_cbar_ax_spec", get_cbar_ax_spec(fig), "list"))

GetCbarOrientation == Query(Returned("get_cbar_orientation", <<>>, get_cbar_orientation(fig)))

\* FigSize( 6, 5, margin_left = 0.5, margin_bottom = 0.5, margin_right = 0.5, margin_top = 0.5 )
Constructed ==
    FigSizeInit(CtorSizeH, CtorSizeV, 1, 1, CtorMargin, CtorMargin, CtorMargin, CtorMargin)

\* The same after set_cbar_loc( "right" ), set_cbar_width( 0.25 ), set_cbar_pad( 0.125 )
WithCbar ==
    [Constructed EXCEPT !.cbar_loc = "right", !.cbar_width = Q(1, 4), !.cbar_pad = Q(1, 8)]

----------------------------------------------------------------------------
(* FigText: construction, and the matplotlib objects it styles *)

\* Sizes and colours are written as strings, "None" and "False" being Python's
\* None and False.  A FontProperties object is a font file with a size; NoFont
\* stands for None.
NoFont == [fname |-> "None", size |-> "None"]
GivenFont == [fname |-> "given.ttf", size |-> "14"]

\* FigText.__init__, with the environment variables MPL_TUNE_FONT_PATH and
\* MPL_TUNE_FONT_SIZE ("" when unset or empty); `fontproperties` is NoFont for
\* None and FalseFont for False
FalseFont == [fname |-> "False", size |-> "False"]
FigTextInit(size, color, fontproperties, tex_flag, env_path, env_size) ==
    [ size |-> size,
      color |-> color,
      fontproperties |->
          IF fontproperties = FalseFont THEN NoFont
          ELSE IF fontproperties = NoFont /\ env_path # ""
          THEN [fname |-> env_path, size |-> IF env_size = "" THEN size ELSE env_size]
          ELSE fontproperties,
      tex |-> tex_flag ]

\* A matplotlib Text and a matplotlib Axes before any styling
NewText == [usetex |-> FALSE, color |-> "black", fontsize |-> "10", font |-> "default.ttf"]
NewAxes == [facecolor |-> "white", tick_color |-> "black", spine_color |-> "black"]

\* The Text objects of the model: the major and minor tick labels of the Axes and
\* of the Colorbar's Axes, the text of a Legend, and one free Text
TextNames == {"ax.major", "ax.minor", "cbar.major", "cbar.minor", "legend", "title"}

\* Text.set_fontproperties( fp ): the Text takes the font and the size of fp
set_fontproperties_of(el, fp) == [el EXCEPT !.font = fp.fname, !.fontsize = fp.size]

\* FigText.set_text: the Text after the call
set_text(self, el, color, size) ==
    LET e1 == [el EXCEPT !.usetex = self.tex]
        e2 == IF color # "False"
              THEN [e1 EXCEPT !.color = IF color = "None" THEN self.color ELSE color]
              ELSE e1
    IN  IF self.fontproperties = NoFont
        THEN IF size # "False"
             THEN [e2 EXCEPT !.fontsize = IF size = "None" THEN self.size ELSE size]
             ELSE e2
        ELSE IF size = "None"
             THEN set_fontproperties_of(e2, self.fontproperties)
             ELSE \* fp = self.fontproperties.copy(); fp.set_size( size )
                  set_fontproperties_of(e2, [self.fontproperties EXCEPT !.size = size])

\* FigText.set_axes, on the Axes itself
set_axes_of(self, a, color) ==
    LET c == IF color = "None" THEN self.color ELSE color
    IN  [a EXCEPT !.facecolor = "none", !.tick_color = c, !.spine_color = c]

\* FigText.set_axes, on the tick labels `major` and `minor` of the Axes
set_axes_labels(self, ls, major, minor, color, size) ==
    [ls EXCEPT ![major] = set_text(self, @, color, size),
               ![minor] = set_text(self, @, color, "False")]

----------------------------------------------------------------------------
(* FigText: the calls, as actions *)

ColorArgs == {"None", "blue"}
SizeOverrides == {"None", "8"}
NoCall == [op |-> "none", target |-> "none", color |-> "None", size |-> "None"]

\* Every call made on the FigText counts towards MaxStyled.
Styling(op, target, color, size) ==
    /\ nstyled < MaxStyled
    /\ nstyled' = nstyled + 1
    /\ last' = [op |-> op, target |-> target, color |-> color, size |-> size]
    /\ UNCHANGED <<ftext, geomVars, convVars>>

SetText ==
    \E t \in TextNames, color \in ColorArgs \cup {"False"}, size \in SizeOverrides \cup {"False"} :
        /\ labels' = [labels EXCEPT ![t] = set_text(ftext, @, color, size)]
        /\ UNCHANGED <<ax, colorbar>>
        /\ Styling("set_text", t, color, size)

SetAxes ==
    \E color \in ColorArgs, size \in SizeOverrides :
        /\ ax' = set_axes_of(ftext, ax, color)
        /\ labels' = set_axes_labels(ftext, labels, "ax.major", "ax.minor", color, size)
        /\ UNCHANGED colorbar
        /\ Styling("set_axes", "ax", color, size)

SetCbar ==
    \E color \in ColorArgs, size \in SizeOverrides :
        /\ colorbar' = [ax |-> set_axes_of(ftext, colorbar.ax, color),
                        outline |-> IF color = "None" THEN ftext.color ELSE color]
        /\ labels' = set_axes_labels(ftext, labels, "cbar.major", "cbar.minor", color, size)
        /\ UNCHANGED ax
        /\ Styling("set_cbar", "cbar", color, size)

SetLegend ==
    \E color \in ColorArgs, size \in SizeOverrides :
        /\ labels' = [labels EXCEPT !["legend"] = set_text(ftext, @, color, size)]
        /\ UNCHANGED <<ax, colorbar>>
        /\ Styling("set_legend", "legend", color, size)

\* set_size, set_color, set_fontproperties and set_tex store their argument.
FigTextSetter(op, new) ==
    /\ nstyled < MaxStyled
    /\ nstyled' = nstyled + 1
    /\ ftext' = new
    /\ last' = [op |-> op, target |-> "self", color |-> "None", size |-> "None"]
    /\ UNCHANGED <<ax, colorbar, labels, geomVars, convVars>>

set_size == \E size \in {"None", "12"} : FigTextSetter("set_size", [ftext EXCEPT !.size = size])
set_color == \E color \in {"None", "red"} : FigTextSetter("set_color", [ftext EXCEPT !.color = color])
set_fontproperties == \E fp \in {NoFont, GivenFont} : FigTextSetter("set_fontproperties", [ftext EXCEPT !.fontproperties = fp])
set_tex == \E t \in BOOLEAN : FigTextSetter("set_tex", [ftext EXCEPT !.tex = t])

StyleInit ==
    /\ \E size \in {"None", "12"}, color \in {"None", "red"},
          fontproperties \in {NoFont, FalseFont, GivenFont}, tex_flag \in BOOLEAN,
          env_path \in {"", "env.ttf"}, env_size \in {"", "9"} :
            ftext = FigTextInit(size, color, fontproperties, tex_flag, env_path, env_size)
    /\ ax = NewAxes
    /\ colorbar = [ax |-> NewAxes, outline |-> "black"]
    /\ labels = [t \in TextNames |-> NewText]
    /\ last = NoCall
    /\ nstyled = 0
    /\ fig = Constructed /\ ret = Returned("__init__", <<>>, "None") /\ ncalls = 0
    /\ text = <<>> /\ math = TRUE /\ tex = "None" /\ pc = "idle" /\ start = 0 /\ out = <<>>

StyleNext ==
    \/ SetText \/ SetAxes \/ SetCbar \/ SetLegend
    \/ set_size \/ set_color \/ set_fontproperties \/ set_tex

----------------------------------------------------------------------------
(* Texts: Python's str methods on sequences of characters, indexed from 0 *)

\* Longest text drawn for conv, besides the examples.
MaxLen == 4
\* Longest value of conv's local `ret` the interpreter can hold (its memory).
MaxOut == 64

Alphabet == {"$", " ", "a", "^", "_", "\\"}

\* "pre $x^2$ post", "a b" and "a<b>_c^"
Examples ==
    { <<"p", "r", "e", " ", "$", "x", "^", "2", "$", " ", "p", "o", "s", "t">>,
      <<"a", " ", "b">>,
      <<"a", "<", "b", ">", "_", "c", "^">> }

Texts == UNION { [1..n -> Alphabet] : n \in 0..MaxLen } \cup Examples

\* str.count( c )
str_count(t, c) == Cardinality({ i \in 1..Len(t) : t[i] = c })

\* str.find( c, from ): the lowest index >= from holding c, else -1
find(t, c, from) ==
    LET hits == { i \in 0..(Len(t) - 1) : i >= from /\ t[i + 1] = c }
    IN  IF hits = {} THEN -1 ELSE CHOOSE i \in hits : \A j \in hits : i <= j

\* t[ a:b ], a >= 0; a negative b counts from the end
slice(t, a, b) ==
    LET hi == IF b < 0 THEN (IF Len(t) + b < 0 THEN 0 ELSE Len(t) + b)
              ELSE (IF b > Len(t) THEN Len(t) ELSE b)
    IN  IF a >= hi THEN <<>> ELSE [i \in 1..(hi - a) |-> t[a + i]]

\* t[ a: ]
slice_from(t, a) == slice(t, a, Len(t))

\* str.replace( c, by ), c one character
RECURSIVE replace(_, _, _)
replace(t, c, by) ==
    IF t = <<>> THEN <<>>
    ELSE (IF Head(t) = c THEN by ELSE <<Head(t)>>) \o replace(Tail(t), c, by)

MathRm == <<"$", "\\", "m", "a", "t", "h", "r", "m", "{">>
MathDefault == <<"\\", "m", "a", "t", "h", "d", "e", "f", "a", "u", "l", "t", "{">>

----------------------------------------------------------------------------
(* FigText.conv *)

\* Whether LaTeX mode is active for a call: the `tex` argument, else self.tex
tex_active(self, tex_arg) == IF tex_arg = "None" THEN self.tex ELSE tex_arg = "True"

\* The LaTeX branch
conv_tex(t, m) ==
    IF m THEN MathRm \o replace(t, " ", <<"~">>) \o <<"}", "$">>
    ELSE replace(replace(replace(replace(t, "_", <<"\\", "_">>), "^", <<"\\", "^">>),
                         "<", <<"$", "<", "$">>), ">", <<"$", ">", "$">>)

\* conv_plain wrapping whatever `math` is
conv_plain_ignores_math(t, m) ==
    IF str_count(t, "^") > 0 \/ str_count(t, "_") > 0 \/ str_count(t, "\\") > 0
    THEN <<"$">> \o MathDefault \o replace(t, " ", <<"\\", " ">>) \o <<"}", "$">>
    ELSE t

\* The last two branches: a text with fewer than two "$", LaTeX mode inactive
conv_plain(t, m) ==
    IF m /\ (str_count(t, "^") > 0 \/ str_count(t, "_") > 0 \/ str_count(t, "\\") > 0)
    THEN <<"$">> \o MathDefault \o replace(t, " ", <<"\\", " ">>) \o <<"}", "$">>
    ELSE t

\* Entering conv: the branch taken, and the result of the branches without a loop
conv_enter ==
    /\ pc = "call"
    /\ IF tex_active(ftext, tex)
       THEN out' = conv_tex(text, math) /\ pc' = "done"
       ELSE IF str_count(text, "$") > 1
       THEN out' = <<>> /\ pc' = "loop"
       ELSE out' = conv_plain(text, math) /\ pc' = "done"
    /\ start' = 0
    /\ UNCHANGED <<text, math, tex, ftext, geomVars, styleVars>>

\* One pass of the `while True` loop
conv_loop ==
    /\ pc = "loop"
    /\ Len(out) <= MaxOut
    /\ LET pos == find(text, "$", start)
           poe == find(text, "$", pos + 1)
       IN  IF pos = -1
           THEN /\ out' = out \o slice_from(text, start)
                /\ pc' = "done"
                /\ start' = start
           ELSE \* the second test repeats `pos == -1`, which is false here
                /\ out' = out \o slice(text, start, pos + 1) \o MathDefault
                              \o replace(slice(text, pos + 1, poe), " ", <<"\\", " ">>)
                              \o <<"}", "$">>
                /\ start' = poe + 1
                /\ pc' = "loop"
    /\ UNCHANGED <<text, math, tex, ftext, geomVars, styleVars>>

\* `ret` has outgrown the memory: the interpreter raises MemoryError
conv_exhaust ==
    /\ pc = "loop"
    /\ Len(out) > MaxOut
    /\ pc' = "MemoryError"
    /\ UNCHANGED <<text, math, tex, start, out, ftext, geomVars, styleVars>>

ConvInit ==
    /\ text \in Texts
    /\ math \in BOOLEAN
    /\ tex \in {"None", "True", "False"}
    /\ \E t \in BOOLEAN : ftext = FigTextInit("10", "None", NoFont, t, "", "")
    /\ pc = "call" /\ start = 0 /\ out = <<>>
    /\ fig = Constructed /\ ret = Returned("__init__", <<>>, "None") /\ ncalls = 0
    /\ ax = NewAxes
    /\ colorbar = [ax |-> NewAxes, outline |-> "black"]
    /\ labels = [t \in TextNames |-> NewText]
    /\ last = NoCall
    /\ nstyled = 0

----------------------------------------------------------------------------
(* Specifications: FigSize (Spec), FigText.conv (SpecConv) and the other calls
   of FigText (SpecStyle); each leaves the other objects as constructed *)

Init ==
    /\ fig \in {Constructed, WithCbar}
    /\ ret = Returned("__init__", <<>>, "None")
    /\ ncalls = 0
    /\ ftext = FigTextInit("10", "None", NoFont, FALSE, "", "")
    /\ text = <<>> /\ math = TRUE /\ tex = "None" /\ pc = "idle" /\ start = 0 /\ out = <<>>
    /\ ax = NewAxes
    /\ colorbar = [ax |-> NewAxes, outline |-> "black"]
    /\ labels = [t \in TextNames |-> NewText]
    /\ last = NoCall
    /\ nstyled = 0

Next ==
    \/ set_size_h \/ set_size_v \/ set_nrows \/ set_ncols
    \/ set_margin_left \/ set_margin_bottom \/ set_margin_right \/ set_margin_top
    \/ set_spacing_h \/ set_spacing_v
    \/ set_cbar_loc \/ set_cbar_width \/ set_cbar_pad
    \/ GetFigureSize \/ GetFigureArgs \/ GetSubplotsArgs
    \/ HasCbar \/ GetCbarAxSpec \/ GetCbarOrientation

Spec == Init /\ [][Next]_vars

ConvNext == conv_enter \/ conv_loop \/ conv_exhaust

SpecConv == ConvInit /\ [][ConvNext]_vars

SpecStyle == StyleInit /\ [][StyleNext]_vars

----------------------------------------------------------------------------
(* Claims about FigText.conv, checked under SpecConv *)

Inactive == ~ tex_active(ftext, tex)

\* The text with every space turned into "\ "
RECURSIVE EscapeSpaces(_)
EscapeSpaces(t) ==
    IF t = <<>> THEN <<>>
    ELSE (IF Head(t) = " " THEN <<"\\", " ">> ELSE <<Head(t)>>) \o EscapeSpaces(Tail(t))

\* The claimed result for a text with two or more "$", read from character i on:
\* a "$" opens a pair when another "$" follows it, the next "$" closes the pair,
\* the inside of a pair is wrapped in \mathdefault{ } with its spaces escaped,
\* and everything else, an unpaired last "$" included, is copied.
RECURSIVE PairedFrom(_, _, _)
PairedFrom(t, i, inside) ==
    IF i > Len(t) THEN <<>>
    ELSE IF t[i] = "$" THEN
        IF inside THEN <<"}", "$">> \o PairedFrom(t, i + 1, FALSE)
        ELSE IF \E j \in (i + 1)..Len(t) : t[j] = "$"
             THEN <<"$">> \o MathDefault \o PairedFrom(t, i + 1, TRUE)
             ELSE <<"$">> \o PairedFrom(t, i + 1, FALSE)
    ELSE (IF inside /\ t[i] = " " THEN <<"\\", " ">> ELSE <<t[i]>>) \o PairedFrom(t, i + 1, inside)

Paired(t) == PairedFrom(t, 1, FALSE)

(* C1: with LaTeX mode inactive and a text of two or more "$", conv terminates
   (it does not run until memory is exhausted) and returns the text with the
   inside of each pair of "$" wrapped in \mathdefault{ } and its spaces escaped,
   an unpaired last "$" and the rest of the text copied as they are. *)
C1_PairedDelimiters ==
    (Inactive /\ str_count(text, "$") > 1) =>
        /\ pc # "MemoryError"
        /\ pc = "done" => out = Paired(text)

(* C1, the texts with an even number of "$": conv returns the claimed text. *)
C1_EvenCount ==
    (Inactive /\ str_count(text, "$") > 1 /\ str_count(text, "$") % 2 = 0) =>
        /\ pc # "MemoryError"
        /\ pc = "done" => out = Paired(text)

C1_WitnessEven ==
    /\ Inactive /\ pc = "done" /\ str_count(text, "$") = 4 /\ str_count(text, " ") = 0

\* The claimed result for a text with fewer than two "$"
Wrapped(t) == <<"$">> \o MathDefault \o EscapeSpaces(t) \o <<"}", "$">>
HasSpecial(t) == \E i \in 1..Len(t) : t[i] \in {"^", "_", "\\"}

(* C9 as stated: with LaTeX mode inactive and fewer than two "$", conv wraps the
   text when it holds "^", "_" or a backslash and returns it unchanged
   otherwise, for both values of math. *)
C9_AsClaimed ==
    (pc = "done" /\ Inactive /\ str_count(text, "$") < 2) =>
        out = IF HasSpecial(text) THEN Wrapped(text) ELSE text

(* C9 as amended: with LaTeX mode inactive and fewer than two "$", conv wraps
   the text when math is true and the text holds "^", "_" or a backslash, and
   returns it unchanged otherwise: always when math is false. *)
C9_Plain ==
    (pc = "done" /\ Inactive /\ str_count(text, "$") < 2) =>
        out = IF math /\ HasSpecial(text) THEN Wrapped(text) ELSE text

C9_Witness ==
    /\ pc = "done" /\ Inactive /\ math
    /\ str_count(text, "$") = 1 /\ str_count(text, "_") = 1 /\ str_count(text, " ") = 2
    /\ out # text

C9_WitnessNoMath ==
    /\ pc = "done" /\ Inactive /\ ~ math /\ HasSpecial(text) /\ out = text

----------------------------------------------------------------------------
(* Claims about FigSize, checked under Spec *)

SizeQueries == {"get_figure_size", "get_figure_args", "get_subplots_args", "get_cbar_ax_spec"}

\* Room of the colour bar along the horizontal / vertical dimension, as the claims state it
CbarRoomH(self) ==
    IF self.cbar_loc \in {"left", "right"} THEN Add(self.cbar_width, self.cbar_pad) ELSE Zero
CbarRoomV(self) ==
    IF self.cbar_loc \in {"bottom", "top"} THEN Add(self.cbar_width, self.cbar_pad) ELSE Zero

\* Size of one subplot in a figure of total size `total`:
\* (total - margins - colour-bar room - spacing * (count - 1)) / count
SubplotSize(total, margin_a, margin_b, room, spacing, count) ==
    Div(Sub(Sub(Sub(Sub(total, margin_a), margin_b), room), Mul(spacing, Q(count - 1, 1))), Q(count, 1))
SubplotWidth(self, W) ==
    SubplotSize(W, self.margin_left, self.margin_right, CbarRoomH(self), resolved_spacing_h(self), self.ncols)
SubplotHeight(self, H) ==
    SubplotSize(H, self.margin_bottom, self.margin_top, CbarRoomV(self), resolved_spacing_v(self), self.nrows)

(* C3: get_figure_size raises the configuration error exactly when type_h and
   type_v are both SIZE_RATIO_AX, whatever the other fields hold; the error
   propagates from get_figure_args, get_subplots_args and get_cbar_ax_spec; and
   a call that raised it has changed no field. *)
C3_ConfigError ==
    /\ [](ret.op \in SizeQueries =>
            (ret.err = "Exception" <=> (fig.type_h = SIZE_RATIO_AX /\ fig.type_v = SIZE_RATIO_AX)))
    /\ [][ret'.err = "Exception" => fig' = fig]_vars

C3_Witness ==
    /\ ret.op = "get_cbar_ax_spec" /\ ret.err = "Exception"
    /\ fig.cbar_loc = "right" /\ fig.ncols = 2

(* C4: when exactly one dimension is in SIZE_RATIO_AX mode with ratio r and
   get_figure_size returns (W, H), the size of one subplot along the ratio
   dimension is r times the size of one subplot along the other dimension. *)
C4_Ratio ==
    (ret.op = "get_figure_size" /\ ret.err = "none") =>
        /\ fig.type_h = SIZE_RATIO_AX =>
              SubplotWidth(fig, ret.val[1]) = Mul(fig.size_h, SubplotHeight(fig, ret.val[2]))
        /\ fig.type_v = SIZE_RATIO_AX =>
              SubplotHeight(fig, ret.val[2]) = Mul(fig.size_v, SubplotWidth(fig, ret.val[1]))

C4_Witness ==
    /\ ret.op = "get_figure_size" /\ ret.err = "none"
    /\ fig.type_h = SIZE_RATIO_AX /\ fig.type_v = SIZE_NO_CBAR
    /\ fig.cbar_loc = "right" /\ fig.nrows = 2

\* The example of the specification: margins 0.5, SIZE_AXES with h = 4 and v = 3, a 1x1
\* grid, no colour bar
Example ==
    [Constructed EXCEPT !.size_h = Q(4, 1), !.type_h = SIZE_AXES,
                        !.size_v = Q(3, 1), !.type_v = SIZE_AXES]

\* The total size the claim gives for a dimension in one of the four non-ratio modes
ClaimedTotal(size, type, count, margin_a, margin_b, spacing_override, room) ==
    LET spacing == IF spacing_override = None THEN Add(margin_a, margin_b) ELSE spacing_override
        axes == Add(Mul(size, Q(count, 1)), Mul(spacing, Q(count - 1, 1)))
    IN  CASE type = SIZE_ALL -> size
          [] type = SIZE_NO_CBAR -> Add(size, room)
          [] type = SIZE_AXES -> Add(Add(size, room), Add(margin_a, margin_b))
          [] type = SIZE_AX -> Add(Add(axes, room), Add(margin_a, margin_b))

(* C5: in the non-ratio modes get_figure_size returns, per dimension, the value
   (SIZE_ALL), the value plus the colour-bar room on that dimension
   (SIZE_NO_CBAR), that plus the two margins (SIZE_AXES), and the same with the
   axes region value * count + spacing * (count - 1) (SIZE_AX); with margins
   0.5, SIZE_AXES, h = 4, v = 3, a 1x1 grid and no colour bar it returns (5, 4). *)
C5_NonRatio ==
    (ret.op = "get_figure_size" /\ ret.err = "none") =>
        /\ fig.type_h # SIZE_RATIO_AX =>
              ret.val[1] = ClaimedTotal(fig.size_h, fig.type_h, fig.ncols, fig.margin_left,
                                        fig.margin_right, fig.spacing_h, CbarRoomH(fig))
        /\ fig.type_v # SIZE_RATIO_AX =>
              ret.val[2] = ClaimedTotal(fig.size_v, fig.type_v, fig.nrows, fig.margin_bottom,
                                        fig.margin_top, fig.spacing_v, CbarRoomV(fig))
        /\ fig = Example =>
              ret.val = <<Q(5, 1), Q(4, 1)>>

C5_Witness ==
    /\ ret.op = "get_figure_size" /\ ret.err = "none"
    /\ fig.type_h = SIZE_AX /\ fig.ncols = 2 /\ fig.cbar_loc = "right"
    /\ fig.type_v = SIZE_ALL

C5_WitnessExample ==
    /\ ret.op = "get_figure_size"
    /\ fig = Example

(* C6: the fractions of get_subplots_args give the margins back: left * W,
   (1 - right) * W, bottom * H and (1 - top) * H are the four margins, the one
   on the colour bar's side increased by cbar_width + cbar_pad. *)
C6_MarginRoundTrip ==
    (ret.op = "get_subplots_args" /\ ret.err = "none") =>
        LET fs == get_figure_size(fig)
            room(side) == IF fig.cbar_loc = side THEN Add(fig.cbar_width, fig.cbar_pad) ELSE Zero
        IN  /\ Mul(ret.val[1], fs.h) = Add(fig.margin_left, room("left"))
            /\ Mul(Sub(One, ret.val[3]), fs.h) = Add(fig.margin_right, room("right"))
            /\ Mul(ret.val[2], fs.v) = Add(fig.margin_bottom, room("bottom"))
            /\ Mul(Sub(One, ret.val[4]), fs.v) = Add(fig.margin_top, room("top"))

C6_Witness ==
    /\ ret.op = "get_subplots_args" /\ ret.err = "none"
    /\ fig.cbar_loc = "top" /\ fig.type_v = SIZE_AX /\ fig.nrows = 2
    /\ Positive(get_figure_size(fig).h) /\ Positive(get_figure_size(fig).v)

\* wspace (or hspace) as the claim gives it
ClaimedSpace(count, region, spacing) ==
    IF count > 1 /\ Positive(spacing)
    THEN Div(Q(count, 1), Sub(Div(region, spacing), Q(count - 1, 1)))
    ELSE Zero

(* C7: get_subplots_args returns wspace = ncols / (region / spacing_h - (ncols - 1))
   when ncols > 1 and spacing_h > 0 and 0 otherwise, region being the figure
   width minus the colour-bar-adjusted margins; so wspace times the width of
   one subplot is spacing_h, and in SIZE_AX mode wspace = spacing_h / size_h.
   Likewise hspace. *)
C7_Spacing ==
    (ret.op = "get_subplots_args" /\ ret.err = "none") =>
        LET fs == get_figure_size(fig)
            wspace == ret.val[5]
            hspace == ret.val[6]
            sp_h == resolved_spacing_h(fig)
            sp_v == resolved_spacing_v(fig)
            region_h == Sub(Sub(Sub(fs.h, fig.margin_left), fig.margin_right), CbarRoomH(fig))
            region_v == Sub(Sub(Sub(fs.v, fig.margin_bottom), fig.margin_top), CbarRoomV(fig))
        IN  /\ wspace = ClaimedSpace(fig.ncols, region_h, sp_h)
            /\ hspace = ClaimedSpace(fig.nrows, region_v, sp_v)
            /\ (fig.ncols > 1 /\ Positive(sp_h)) =>
                  /\ Mul(wspace, SubplotWidth(fig, fs.h)) = sp_h
                  /\ fig.type_h = SIZE_AX => wspace = Div(sp_h, fig.size_h)
            /\ (fig.nrows > 1 /\ Positive(sp_v)) =>
                  /\ Mul(hspace, SubplotHeight(fig, fs.v)) = sp_v
                  /\ fig.type_v = SIZE_AX => hspace = Div(sp_v, fig.size_v)

C7_Witness ==
    /\ ret.op = "get_subplots_args" /\ ret.err = "none"
    /\ fig.ncols = 2 /\ fig.type_h = SIZE_AX /\ fig.spacing_h = Q(1, 4)
    /\ ret.val[5] = Q(1, 16)

(* C8: the rectangle of get_cbar_ax_spec lies in the strip reserved beside the
   subplot region of get_subplots_args: the gap between the two is cbar_pad,
   the bar is cbar_width thick, and along the other dimension it starts at the
   near margin and spans the figure minus the two margins. *)
C8_CbarRect ==
    (ret.op = "get_cbar_ax_spec" /\ ret.err = "none" /\ ret.val # <<>>
        /\ get_subplots_args(fig).err = "none") =>
        LET fs == get_figure_size(fig)
            sub == get_subplots_args(fig).val
            W == fs.h
            H == fs.v
            x0 == Mul(ret.val[1], W)
            y0 == Mul(ret.val[2], H)
            x1 == Add(x0, Mul(ret.val[3], W))
            y1 == Add(y0, Mul(ret.val[4], H))
            left == Mul(sub[1], W)
            bottom == Mul(sub[2], H)
            right == Mul(sub[3], W)
            top == Mul(sub[4], H)
            spans_h == x0 = fig.margin_left /\ x1 = Sub(W, fig.margin_right)
            spans_v == y0 = fig.margin_bottom /\ y1 = Sub(H, fig.margin_top)
        IN  CASE fig.cbar_loc = "left" ->
                    Sub(x1, x0) = fig.cbar_width /\ Sub(left, x1) = fig.cbar_pad /\ spans_v
              [] fig.cbar_loc = "right" ->
                    Sub(x1, x0) = fig.cbar_width /\ Sub(x0, right) = fig.cbar_pad /\ spans_v
              [] fig.cbar_loc = "bottom" ->
                    Sub(y1, y0) = fig.cbar_width /\ Sub(bottom, y1) = fig.cbar_pad /\ spans_h
              [] fig.cbar_loc = "top" ->
                    Sub(y1, y0) = fig.cbar_width /\ Sub(y0, top) = fig.cbar_pad /\ spans_h

(* C10: the three colour-bar queries agree: has_cbar() is true iff cbar_loc is
   one of the four sides, iff get_cbar_orientation() is not None, iff
   get_cbar_ax_spec(), when it returns, is not None; the orientation is
   "vertical" exactly for left/right and "horizontal" exactly for bottom/top. *)
C10_CbarQueries ==
    LET side == fig.cbar_loc \in {"left", "right", "bottom", "top"}
    IN  /\ ret.op = "has_cbar" =>
              /\ ret.str = "True" <=> side
              /\ ret.str = "True" <=> get_cbar_orientation(fig) # "None"
              /\ get_cbar_ax_spec(fig).err = "none" =>
                    (ret.str = "True" <=> get_cbar_ax_spec(fig).val # <<>>)
        /\ ret.op = "get_cbar_orientation" =>
              /\ ret.str = "vertical" <=> fig.cbar_loc \in {"left", "right"}
              /\ ret.str = "horizontal" <=> fig.cbar_loc \in {"bottom", "top"}
              /\ ret.str = "None" <=> ~ side
              /\ ret.str # "None" <=> has_cbar(fig)
        /\ (ret.op = "get_cbar_ax_spec" /\ ret.err = "none") =>
              /\ ret.val # <<>> <=> side
              /\ ret.val # <<>> <=> has_cbar(fig)

C10_Witness ==
    /\ ret.op = "get_cbar_ax_spec" /\ ret.err = "none" /\ ret.val # <<>>
    /\ fig.cbar_loc = "bottom" /\ ncalls = MaxCalls

C10_WitnessOther ==
    /\ ret.op = "has_cbar" /\ ret.str = "False" /\ fig.cbar_loc = "center"

----------------------------------------------------------------------------
(* FigText.set_text and set_axes: what size = False leaves alone *)

\* The font and the font size of a Text are those it had before the call
SameFont(before, after) == after.font = before.font /\ after.fontsize = before.fontsize

\* C2: set_text called with size = False never changes the font or the font size
\* of the Text, with or without fontproperties configured, while it sets usetex
\* and the colour (the override, or the stored default for None); and set_axes
\* leaves the font and the font size of the minor tick labels as they were.
C2_SizeFalse ==
    [][ /\ (last'.op = "set_text" /\ last'.size = "False") =>
              /\ SameFont(labels[last'.target], labels'[last'.target])
              /\ labels'[last'.target].usetex = ftext.tex
              /\ last'.color # "False" =>
                    labels'[last'.target].color =
                        IF last'.color = "None" THEN ftext.color ELSE last'.color
        /\ last'.op = "set_axes" => SameFont(labels["ax.minor"], labels'["ax.minor"])
      ]_vars

----------------------------------------------------------------------------
(* FigSize: the queries keep nothing between calls *)

QueryNames ==
    {"get_figure_size", "get_figure_args", "get_subplots_args",
     "has_cbar", "get_cbar_ax_spec", "get_cbar_orientation"}

\* What the query `op` returns or raises on an instance whose fields are `self`
Answer(op, self) ==
    CASE op = "get_figure_size" -> SizeReply(op, get_figure_size(self), "None")
      [] op = "get_figure_args" -> SizeReply(op, get_figure_size(self), "figsize")
      [] op = "get_subplots_args" -> ArgsReply(op, get_subplots_args(self), "dict")
      [] op = "has_cbar" -> Returned(op, <<>>, IF has_cbar(self) THEN "True" ELSE "False")
      [] op = "get_cbar_ax_spec" -> ArgsReply(op, get_cbar_ax_spec(self), "list")
      [] op = "get_cbar_orientation" -> Returned(op, <<>>, get_cbar_orientation(self))

(* C11: no caching.  Every query of FigSize leaves all the fields as they
   were; what it returns or raises is a function of the values the fields hold
   at the call, whatever calls came before, so a setter is reflected by the next
   query; and a query repeated with no setter in between gives the same result. *)
C11_NoCaching ==
    [][ ret'.op \in QueryNames =>
            /\ fig' = fig
            /\ ret' = Answer(ret'.op, fig)
            /\ ret.op = ret'.op => ret' = ret
      ]_vars

\* get_figure_size after set_size_h( 4 ) and set_size_v( 3 ) on the 6 x 5 figure
\* returns (4, 3), not the (6, 5) of before
C11_Witness ==
    /\ ret.op = "get_figure_size" /\ ret.err = "none"
    /\ ncalls = 2
    /\ fig.type_h = SIZE_ALL /\ fig.type_v = SIZE_ALL
    /\ ret.val = <<Q(4, 1), Q(3, 1)>>

=============================================================================
